---- MODULE Spec2Model ----
(***************************************************************************)
(* The tree store of svelte-folder-tree (src/lib/stores/treeStore.ts):     *)
(* a writable store holding { nodes, activeNodeId, isLoading } and the     *)
(* commands that edit it.  The commands with a persistence leg (delete,    *)
(* addFile, addFolder) are split at their await: one step issues the       *)
(* fetch, a later step is the continuation after the fetch resolved or     *)
(* rejected.  Every update() callback runs atomically (one JS task).       *)
(***************************************************************************)
EXTENDS Integers, Sequences, FiniteSets, TLC

VARIABLES nodes, activeNodeId, isLoading, inflight, nextId, last,
          importer, hover

\* the store, the outstanding fetches and the record of the last step
storeVars == <<nodes, activeNodeId, isLoading, inflight, nextId, last>>
\* the components: the import of a drop in progress, the drag-hover state
uiVars == <<importer, hover>>

vars == <<nodes, activeNodeId, isLoading, inflight, nextId, last, importer, hover>>

(***************************************************************************)
(* Bounds of the model.                                                    *)
(***************************************************************************)
\* how many node ids generateId may mint in one run
MaxAdds == 1
\* how many fetch calls may be outstanding at once
MaxInFlight == 2
\* how many timeouts may be scheduled at once
MaxTimers == 2

(***************************************************************************)
(* Values.  An id is a positive integer, Null stands for null / undefined  *)
(* (no id).  A name is a sequence of characters.                           *)
(***************************************************************************)
Null == 0

NoNode == [id |-> Null, name |-> <<>>, type |-> "none"]

FileItem(id, name) == [id |-> id, name |-> name, type |-> "file"]

FolderItem(id, name, children, expanded) ==
  [id |-> id, name |-> name, type |-> "folder",
   children |-> children, expanded |-> expanded]

Names == { <<"a">>, <<"A">>, <<"b">> }

LowerChar(c) == IF c = "A" THEN "a" ELSE c

toLowerCase(s) == [i \in DOMAIN s |-> LowerChar(s[i])]

\* the character of a decimal digit
Digit(d) == <<"0", "1", "2", "3", "4", "5", "6", "7", "8", "9">>[d + 1]

\* v.maxLength(255, ...) of renameSchema
maxLength == 255

isFolder(node) == node.type = "folder"

getChildren(node) == IF isFolder(node) THEN node.children ELSE <<>>

(***************************************************************************)
(* Tree Locator.                                                           *)
(***************************************************************************)
RECURSIVE findNode(_, _)
findNode(ns, id) ==
  IF ns = <<>> THEN NoNode
  ELSE LET node == Head(ns) IN
       IF node.id = id THEN node
       ELSE LET found == IF isFolder(node) THEN findNode(node.children, id)
                         ELSE NoNode
            IN IF found # NoNode THEN found ELSE findNode(Tail(ns), id)

someChildHasId(node, id) == \E i \in DOMAIN node.children : node.children[i].id = id

RECURSIVE findParent(_, _, _)
findParent(ns, id, parent) ==
  IF ns = <<>> THEN NoNode
  ELSE LET node == Head(ns) IN
       IF node.id = id THEN parent
       ELSE IF isFolder(node)
            THEN LET found == findParent(node.children, id, node) IN
                 IF found # NoNode THEN found
                 ELSE IF someChildHasId(node, id) THEN node
                 ELSE findParent(Tail(ns), id, parent)
            ELSE findParent(Tail(ns), id, parent)

\* the ids of all nodes of a forest, at any depth
RECURSIVE idsOf(_)
idsOf(ns) ==
  IF ns = <<>> THEN {}
  ELSE LET node == Head(ns) IN
       {node.id} \cup idsOf(getChildren(node)) \cup idsOf(Tail(ns))

(***************************************************************************)
(* Tree Mutator.                                                           *)
(***************************************************************************)
\* a removeNode that filters the given level only
removeNodeTopLevelOnly(ns, id) == SelectSeq(ns, LAMBDA node : node.id # id)

\* a removeNode that fills the gap with the last sibling instead of closing it
RECURSIVE removeNodeSwapLast(_, _)
removeNodeSwapLast(ns, id) ==
  IF \E i \in DOMAIN ns : ns[i].id = id
  THEN LET i == CHOOSE k \in DOMAIN ns : ns[k].id = id
           n == Len(ns)
       IN [j \in 1 .. (n - 1) |-> IF j = i THEN ns[n] ELSE ns[j]]
  ELSE [j \in DOMAIN ns |->
          IF isFolder(ns[j])
          THEN [ns[j] EXCEPT !.children = removeNodeSwapLast(@, id)]
          ELSE ns[j]]

RECURSIVE removeNode(_, _)
removeNode(ns, id) ==
  IF ns = <<>> THEN <<>>
  ELSE LET node == Head(ns)
           rest == removeNode(Tail(ns), id)
       IN IF node.id = id THEN rest
          ELSE IF isFolder(node)
               THEN <<[node EXCEPT !.children = removeNode(node.children, id)]>> \o rest
               ELSE <<node>> \o rest

\* an addNodeToParent that puts the new node first: [newNode, ...node.children]
RECURSIVE addNodeToParentPrepend(_, _, _)
addNodeToParentPrepend(ns, parentId, newNode) ==
  [i \in DOMAIN ns |->
     LET node == ns[i] IN
     IF node.id = parentId /\ isFolder(node)
     THEN [node EXCEPT !.children = <<newNode>> \o node.children,
                       !.expanded = TRUE]
     ELSE IF isFolder(node)
          THEN [node EXCEPT !.children = addNodeToParentPrepend(node.children, parentId, newNode)]
          ELSE node]

\* an addNodeToParent that leaves the folder as it was: no expanded: true
RECURSIVE addNodeToParentNoExpand(_, _, _)
addNodeToParentNoExpand(ns, parentId, newNode) ==
  [i \in DOMAIN ns |->
     LET node == ns[i] IN
     IF node.id = parentId /\ isFolder(node)
     THEN [node EXCEPT !.children = Append(node.children, newNode)]
     ELSE IF isFolder(node)
          THEN [node EXCEPT !.children = addNodeToParentNoExpand(node.children, parentId, newNode)]
          ELSE node]

RECURSIVE addNodeToParent(_, _, _)
addNodeToParent(ns, parentId, newNode) ==
  [i \in DOMAIN ns |->
     LET node == ns[i] IN
     IF node.id = parentId /\ isFolder(node)
     THEN [node EXCEPT !.children = Append(node.children, newNode),
                       !.expanded = TRUE]
     ELSE IF isFolder(node)
          THEN [node EXCEPT !.children = addNodeToParent(node.children, parentId, newNode)]
          ELSE node]

\* an updateNodeName that also collapses the folder it renames
RECURSIVE updateNodeNameCollapsing(_, _, _)
updateNodeNameCollapsing(ns, id, newName) ==
  [i \in DOMAIN ns |->
     LET node == ns[i] IN
     IF node.id = id
     THEN IF isFolder(node) THEN [node EXCEPT !.name = newName, !.expanded = FALSE]
          ELSE [node EXCEPT !.name = newName]
     ELSE IF isFolder(node)
          THEN [node EXCEPT !.children = updateNodeNameCollapsing(node.children, id, newName)]
          ELSE node]

RECURSIVE updateNodeName(_, _, _)
updateNodeName(ns, id, newName) ==
  [i \in DOMAIN ns |->
     LET node == ns[i] IN
     IF node.id = id THEN [node EXCEPT !.name = newName]
     ELSE IF isFolder(node)
          THEN [node EXCEPT !.children = updateNodeName(node.children, id, newName)]
          ELSE node]

\* a setNodeExpanded that sets the flag on the ancestors of the folder too
RECURSIVE setNodeExpandedAlongPath(_, _, _)
setNodeExpandedAlongPath(ns, id, expanded) ==
  [i \in DOMAIN ns |->
     LET node == ns[i] IN
     IF node.id = id /\ isFolder(node) THEN [node EXCEPT !.expanded = expanded]
     ELSE IF isFolder(node)
          THEN [node EXCEPT
                  !.children = setNodeExpandedAlongPath(node.children, id, expanded),
                  !.expanded = IF id \in idsOf(node.children) THEN expanded ELSE @]
          ELSE node]

RECURSIVE setNodeExpanded(_, _, _)
setNodeExpanded(ns, id, expanded) ==
  [i \in DOMAIN ns |->
     LET node == ns[i] IN
     IF node.id = id /\ isFolder(node) THEN [node EXCEPT !.expanded = expanded]
     ELSE IF isFolder(node)
          THEN [node EXCEPT !.children = setNodeExpanded(node.children, id, expanded)]
          ELSE node]

\* [...nodes, newNode] or addNodeToParent, as addFile/addFolder/moveNode choose
insertNode(ns, parentId, newNode) ==
  IF parentId # Null THEN addNodeToParent(ns, parentId, newNode)
  ELSE Append(ns, newNode)

(***************************************************************************)
(* The record of the most recent command step (a history variable: which   *)
(* operation ran last, with its arguments).                                *)
(***************************************************************************)
Cmd(op, id, name, parentId, expanded) ==
  [op |-> op, id |-> id, name |-> name, parentId |-> parentId, expanded |-> expanded]

NoCmd == Cmd("none", Null, <<>>, Null, FALSE)

\* a fetch that has been issued and has neither resolved nor rejected yet
Request(op, id, name, parentId) ==
  [op |-> op, id |-> id, name |-> name, parentId |-> parentId]

(***************************************************************************)
(* The components at mount: no import in progress, no item hovered, no     *)
(* timer pending.                                                          *)
(***************************************************************************)
NoRequest == Request("none", Null, <<>>, Null)

NoEntry == [key |-> 0, name |-> <<>>, isDirectory |-> FALSE, entries |-> <<>>]

\* pc: idle, ready (an entry is due) or awaiting (a create call is awaited)
NoImport ==
  [pc |-> "idle", entry |-> NoEntry, awaited |-> NoRequest,
   containerCall |-> NoRequest, todo |-> <<>>]

\* the items whose isDragOver is true, the handle each item holds in
\* hoverExpandTimer (no entry: null), and the timeouts that are scheduled and
\* have neither fired nor been cleared
NoHover == [isDragOver |-> {}, hoverExpandTimer |-> {}, timers |-> {}]

(***************************************************************************)
(* Initial trees: what initialize() is given by the page load.             *)
(***************************************************************************)
SeedDocs ==
  << FolderItem(1, <<"a">>,
        << FolderItem(2, <<"b">>, <<>>, TRUE), FileItem(3, <<"A">>) >>, FALSE),
     FileItem(4, <<"b">>) >>

SeedFlat == << FolderItem(1, <<"a">>, <<>>, FALSE), FileItem(2, <<"b">>) >>

Seeds == { <<>>, SeedFlat }

MoveSeeds == { SeedDocs, SeedFlat }

\* Names with an extension, with a leading dot and with a number, for the
\* Name Resolver; NameTrees are the initial trees that bear them
DotTxt == <<".", "t", "x", "t">>

Numbered(k) == <<"(", Digit(k), ")">>

ResolverNames ==
  { <<"a">>, <<"A">>, <<"a">> \o DotTxt, <<"A">> \o DotTxt, <<".", "a">>,
    <<"a">> \o Numbered(1), <<"a">> \o Numbered(1) \o DotTxt }

SiblingNames ==
  ResolverNames \cup
  { <<"a">> \o Numbered(2), <<"a">> \o Numbered(2) \o DotTxt,
    <<".", "a">> \o Numbered(1) }

RootFileNames == { <<"a">> \o Numbered(1), <<"b">> }

NameTrees ==
  { << FolderItem(1, <<"a">>, << FileItem(2, n2), FileItem(3, n3) >>, TRUE),
       FileItem(4, n4) >> : n2 \in SiblingNames, n3 \in SiblingNames,
                            n4 \in RootFileNames }

\* what the editor of a tree item may hold when it is committed
LongName(n) == [i \in 1 .. n |-> "a"]

EditNames ==
  { <<>>, <<" ">>, <<" ", "b", " ">>, <<"a">>, <<"A">>, <<"b">>,
    <<"a", "/", "b">>, <<"a", "\\">>, LongName(maxLength), LongName(maxLength + 1) }

\* ids 1..SeedIds belong to the initial trees, generateId mints the next ones
SeedIds == Cardinality(idsOf(SeedDocs))
FirstNewId == SeedIds + 1
LastNewId == SeedIds + MaxAdds
\* an id that no node ever has (a stale or mistyped id)
AbsentId == LastNewId + 1

Init ==
  /\ nodes \in Seeds
  /\ activeNodeId = Null
  /\ isLoading = FALSE
  /\ inflight = <<>>
  /\ nextId = FirstNewId
  /\ last = NoCmd
  /\ importer = NoImport
  /\ hover = NoHover

(***************************************************************************)
(* Synchronous commands.                                                   *)
(***************************************************************************)
setActive(id) ==
  /\ activeNodeId' = id
  /\ last' = Cmd("setActive", id, <<>>, Null, FALSE)
  /\ UNCHANGED <<nodes, isLoading, inflight, nextId>>

\* the update callback of toggleExpand
toggleExpandResult(ns, id) ==
  LET node == findNode(ns, id) IN
  IF node = NoNode \/ ~isFolder(node) THEN ns
  ELSE setNodeExpanded(ns, id, ~node.expanded)

toggleExpand(id) ==
  /\ nodes' = toggleExpandResult(nodes, id)
  /\ last' = Cmd("toggleExpand", id, <<>>, Null, FALSE)
  /\ UNCHANGED <<activeNodeId, isLoading, inflight, nextId>>

setExpanded(id, expanded) ==
  /\ nodes' = setNodeExpanded(nodes, id, expanded)
  /\ last' = Cmd("setExpanded", id, <<>>, Null, expanded)
  /\ UNCHANGED <<activeNodeId, isLoading, inflight, nextId>>

rename(id, newName) ==
  /\ nodes' = updateNodeName(nodes, id, newName)
  /\ last' = Cmd("rename", id, newName, Null, FALSE)
  /\ UNCHANGED <<activeNodeId, isLoading, inflight, nextId>>

\* a cycle guard that looks at the target only and does not walk up
walkReachesSelfOnly(ns, checkNode, nodeId) ==
  checkNode # NoNode /\ checkNode.id = nodeId

\* the while loop of moveNode: walk from checkNode up through the parents
RECURSIVE walkReaches(_, _, _)
walkReaches(ns, checkNode, nodeId) ==
  IF checkNode = NoNode THEN FALSE
  ELSE IF checkNode.id = nodeId THEN TRUE
  ELSE walkReaches(ns, findParent(ns, checkNode.id, NoNode), nodeId)

\* a moveNode that refuses to drop into a collapsed folder
moveNodeResultIntoExpandedOnly(ns, nodeId, targetParentId) ==
  LET nodeCopy == findNode(ns, nodeId)
      target == findNode(ns, targetParentId) IN
  IF nodeCopy = NoNode THEN ns
  ELSE IF targetParentId # Null /\ walkReaches(ns, target, nodeId) THEN ns
  ELSE IF findParent(ns, nodeId, NoNode).id = targetParentId THEN ns
  ELSE IF target # NoNode /\ isFolder(target) /\ ~target.expanded THEN ns
  ELSE insertNode(removeNode(ns, nodeId), targetParentId, nodeCopy)

\* a moveNode without the same-parent guard
moveNodeResultNoSameParentGuard(ns, nodeId, targetParentId) ==
  LET nodeCopy == findNode(ns, nodeId) IN
  IF nodeCopy = NoNode THEN ns
  ELSE IF targetParentId # Null /\ walkReaches(ns, findNode(ns, targetParentId), nodeId)
       THEN ns
  ELSE insertNode(removeNode(ns, nodeId), targetParentId, nodeCopy)

moveNodeResult(ns, nodeId, targetParentId) ==
  LET nodeCopy == findNode(ns, nodeId) IN
  IF nodeCopy = NoNode THEN ns
  ELSE IF targetParentId # Null /\ walkReaches(ns, findNode(ns, targetParentId), nodeId)
       THEN ns
  ELSE IF findParent(ns, nodeId, NoNode).id = targetParentId THEN ns
  ELSE insertNode(removeNode(ns, nodeId), targetParentId, nodeCopy)

moveNode(nodeId, targetParentId) ==
  /\ nodes' = moveNodeResult(nodes, nodeId, targetParentId)
  /\ last' = Cmd("moveNode", nodeId, <<>>, targetParentId, FALSE)
  /\ UNCHANGED <<activeNodeId, isLoading, inflight, nextId>>

(***************************************************************************)
(* Name Resolver: checkDuplicate, getUniqueFolderName, getUniqueFileName.  *)
(* These read the store and return a value; the step records what was      *)
(* returned in last.result.                                                *)
(***************************************************************************)
Reply(op, id, name, parentId, result) ==
  [op |-> op, id |-> id, name |-> name, parentId |-> parentId,
   expanded |-> FALSE, result |-> result]

getChildrenOfParent(ns, parentId) ==
  IF parentId = Null THEN ns
  ELSE LET parent == findNode(ns, parentId) IN
       IF parent # NoNode THEN getChildren(parent) ELSE <<>>

\* a comparison of the names as they are written
nameTakenCaseSensitive(children, name) ==
  \E i \in DOMAIN children : children[i].name = name

\* children.some((c) => c.name.toLowerCase() === name.toLowerCase())
nameTaken(children, name) ==
  \E i \in DOMAIN children : toLowerCase(children[i].name) = toLowerCase(name)

\* `${counter}`: the decimal digits of a positive integer
RECURSIVE decimal(_)
decimal(n) ==
  IF n < 10 THEN <<Digit(n)>> ELSE decimal(n \div 10) \o <<Digit(n % 10)>>

\* `${baseName}(${counter})${extension}`
numberedName(baseName, counter, extension) ==
  baseName \o <<"(">> \o decimal(counter) \o <<")">> \o extension

\* the while loop of both resolvers: counter++ until the name is free
RECURSIVE firstFreeName(_, _, _, _)
firstFreeName(children, baseName, extension, counter) ==
  LET newName == numberedName(baseName, counter, extension) IN
  IF nameTaken(children, newName)
  THEN firstFreeName(children, baseName, extension, counter + 1)
  ELSE newName

\* a resolver that numbers the name without looking whether it is taken
getUniqueFolderNameAlwaysNumbered(ns, parentId, baseName) ==
  firstFreeName(getChildrenOfParent(ns, parentId), baseName, <<>>, 1)

\* a resolver whose counter starts at 2
getUniqueFolderNameFromTwo(ns, parentId, baseName) ==
  LET children == getChildrenOfParent(ns, parentId) IN
  IF ~nameTaken(children, baseName) THEN baseName
  ELSE firstFreeName(children, baseName, <<>>, 2)

getUniqueFolderNameResult(ns, parentId, baseName) ==
  LET children == getChildrenOfParent(ns, parentId) IN
  IF ~nameTaken(children, baseName) THEN baseName
  ELSE firstFreeName(children, baseName, <<>>, 1)

\* fileName.lastIndexOf(c): the last position of c counted from 0, or -1
lastIndexOf(s, c) ==
  LET at == {i \in DOMAIN s : s[i] = c} IN
  IF at = {} THEN -1 ELSE (CHOOSE i \in at : \A j \in at : j <= i) - 1

\* fileName.substring(from, to), positions counted from 0, to excluded
substring(s, from, to) == SubSeq(s, from + 1, to)

\* a resolver that puts the number after the whole name
getUniqueFileNameNumberedAtEnd(ns, parentId, fileName) ==
  LET children == getChildrenOfParent(ns, parentId) IN
  IF ~nameTaken(children, fileName) THEN fileName
  ELSE firstFreeName(children, fileName, <<>>, 1)

getUniqueFileNameResult(ns, parentId, fileName) ==
  LET children == getChildrenOfParent(ns, parentId) IN
  IF ~nameTaken(children, fileName) THEN fileName
  ELSE LET lastDot == lastIndexOf(fileName, ".")
           baseName == IF lastDot > 0 THEN substring(fileName, 0, lastDot)
                       ELSE fileName
           extension == IF lastDot > 0
                        THEN substring(fileName, lastDot, Len(fileName))
                        ELSE <<>>
       IN firstFreeName(children, baseName, extension, 1)

\* how often the condition of the while loop is evaluated from counter on
RECURSIVE whileTests(_, _, _, _)
whileTests(children, baseName, extension, counter) ==
  IF nameTaken(children, numberedName(baseName, counter, extension))
  THEN 1 + whileTests(children, baseName, extension, counter + 1)
  ELSE 1

\* the candidate names getUniqueFolderName compares with the children:
\* baseName in the if, then one per evaluation of the while condition
getUniqueFolderNameTests(ns, parentId, baseName) ==
  LET children == getChildrenOfParent(ns, parentId) IN
  IF ~nameTaken(children, baseName) THEN 1
  ELSE 1 + whileTests(children, baseName, <<>>, 1)

\* the same count for getUniqueFileName
getUniqueFileNameTests(ns, parentId, fileName) ==
  LET children == getChildrenOfParent(ns, parentId) IN
  IF ~nameTaken(children, fileName) THEN 1
  ELSE LET lastDot == lastIndexOf(fileName, ".")
           baseName == IF lastDot > 0 THEN substring(fileName, 0, lastDot)
                       ELSE fileName
           extension == IF lastDot > 0
                        THEN substring(fileName, lastDot, Len(fileName))
                        ELSE <<>>
       IN 1 + whileTests(children, baseName, extension, 1)

getUniqueFolderName(parentId, baseName) ==
  /\ last' = Reply("getUniqueFolderName", Null, baseName, parentId,
                   getUniqueFolderNameResult(nodes, parentId, baseName))
  /\ UNCHANGED <<nodes, activeNodeId, isLoading, inflight, nextId>>

getUniqueFileName(parentId, fileName) ==
  /\ last' = Reply("getUniqueFileName", Null, fileName, parentId,
                   getUniqueFileNameResult(nodes, parentId, fileName))
  /\ UNCHANGED <<nodes, activeNodeId, isLoading, inflight, nextId>>

(***************************************************************************)
(* Rename as the tree item commits it: TreeItem.handleRename trims and     *)
(* validates the text of the editor (renameSchema), asks checkDuplicate    *)
(* and only then calls treeStore.rename.  last.result is the errorMessage  *)
(* the handler leaves on display, NoMessage when it shows none.            *)
(***************************************************************************)
NoMessage == ""
\* the texts of the messages, by what they say
MsgEmpty == "enter a file name"
MsgTooLong == "the file name is too long"
MsgSlash == "/ cannot be used in a file name"
MsgBackslash == "\\ cannot be used in a file name"
MsgDuplicate == "an item of this name already exists"

isSpace(c) == c = " "

RECURSIVE trimStart(_)
trimStart(s) ==
  IF s # <<>> /\ isSpace(Head(s)) THEN trimStart(Tail(s)) ELSE s

RECURSIVE trimEnd(_)
trimEnd(s) ==
  IF s # <<>> /\ isSpace(s[Len(s)]) THEN trimEnd(SubSeq(s, 1, Len(s) - 1)) ELSE s

\* editName.trim()
trim(s) == trimEnd(trimStart(s))

includes(s, c) == \E i \in DOMAIN s : s[i] = c

\* a schema that checks the length only
renameSchemaLengthOnly(name) ==
  IF Len(name) < 1 THEN MsgEmpty
  ELSE IF Len(name) > maxLength THEN MsgTooLong
  ELSE NoMessage

\* v.safeParse(renameSchema, { name }): the message of the first issue
renameSchema(name) ==
  IF Len(name) < 1 THEN MsgEmpty
  ELSE IF Len(name) > maxLength THEN MsgTooLong
  ELSE IF includes(name, "/") THEN MsgSlash
  ELSE IF includes(name, "\\") THEN MsgBackslash
  ELSE NoMessage

\* a getSiblings that forgets to leave the node itself out
getSiblingsWithSelf(ns, id) ==
  IF \E i \in DOMAIN ns : ns[i].id = id THEN ns
  ELSE getChildren(findParent(ns, id, NoNode))

RECURSIVE getSiblings(_, _)
RECURSIVE getSiblingsInFolders(_, _)
\* the for loop of getSiblings
getSiblingsInFolders(ns, id) ==
  IF ns = <<>> THEN <<>>
  ELSE LET node == Head(ns) IN
       IF isFolder(node)
       THEN IF someChildHasId(node, id)
            THEN SelectSeq(node.children, LAMBDA c : c.id # id)
            ELSE LET found == getSiblings(node.children, id) IN
                 IF Len(found) > 0 THEN found
                 ELSE getSiblingsInFolders(Tail(ns), id)
       ELSE getSiblingsInFolders(Tail(ns), id)

getSiblings(ns, id) ==
  IF \E i \in DOMAIN ns : ns[i].id = id
  THEN SelectSeq(ns, LAMBDA n : n.id # id)
  ELSE getSiblingsInFolders(ns, id)

checkDuplicate(ns, nodeId, newName) == nameTaken(getSiblings(ns, nodeId), newName)

\* the two lookups asked of the store as it stands; getSiblings is reached
\* through checkDuplicate, last.result holds what was returned
askSiblings(id) ==
  /\ last' = Reply("getSiblings", id, <<>>, Null, getSiblings(nodes, id))
  /\ UNCHANGED <<nodes, activeNodeId, isLoading, inflight, nextId>>

askDuplicate(nodeId, newName) ==
  /\ last' = Reply("checkDuplicate", nodeId, newName, Null,
                   checkDuplicate(nodes, nodeId, newName))
  /\ UNCHANGED <<nodes, activeNodeId, isLoading, inflight, nextId>>

\* the errorMessage handleRename ends with
handleRenameMessage(ns, node, editName) ==
  LET trimmedName == trim(editName) IN
  IF trimmedName = <<>> THEN MsgEmpty
  ELSE IF renameSchema(trimmedName) # NoMessage THEN renameSchema(trimmedName)
  ELSE IF trimmedName = node.name THEN NoMessage
  ELSE IF checkDuplicate(ns, node.id, trimmedName) THEN MsgDuplicate
  ELSE NoMessage

\* handleRename of the tree item that shows node id, its editor open
handleRename(id, editName) ==
  LET node == findNode(nodes, id)
      trimmedName == trim(editName)
      errorMessage == handleRenameMessage(nodes, node, editName)
  IN /\ nodes' = IF errorMessage = NoMessage /\ trimmedName # node.name
                 THEN updateNodeName(nodes, node.id, trimmedName)
                 ELSE nodes
     /\ last' = Reply("handleRename", id, editName, Null, errorMessage)
     /\ UNCHANGED <<activeNodeId, isLoading, inflight, nextId>>

(***************************************************************************)
(* Commands with a persistence leg.  xxxStart is the command up to its     *)
(* await (isLoading := true, fetch issued); xxxResolved is the rest of the *)
(* try block once the fetch resolved, xxxRejected the catch block.         *)
(* Responses arrive in any order.                                          *)
(***************************************************************************)
RemoveAt(s, i) == SubSeq(s, 1, i - 1) \o SubSeq(s, i + 1, Len(s))

pendingAdds == Cardinality({i \in DOMAIN inflight : inflight[i].op # "delete"})

\* Math.random().toString(36).substr(2, 9): taken to be an id not used before
generateId == nextId

canStart == Len(inflight) < MaxInFlight

canStartAdd == canStart /\ nextId + pendingAdds <= LastNewId

\* a delete that removes the node before the fetch has answered
deleteStartOptimistic(id) ==
  /\ canStart
  /\ isLoading' = TRUE
  /\ inflight' = Append(inflight, Request("delete", id, <<>>, Null))
  /\ last' = Cmd("deleteStart", id, <<>>, Null, FALSE)
  /\ nodes' = removeNode(nodes, id)
  /\ UNCHANGED <<activeNodeId, nextId>>

deleteStart(id) ==
  /\ canStart
  /\ isLoading' = TRUE
  /\ inflight' = Append(inflight, Request("delete", id, <<>>, Null))
  /\ last' = Cmd("deleteStart", id, <<>>, Null, FALSE)
  /\ UNCHANGED <<nodes, activeNodeId, nextId>>

\* a delete that drops the selection whichever node it removed
deleteResolvedAlwaysClears(i) ==
  /\ inflight[i].op = "delete"
  /\ LET id == inflight[i].id IN
     /\ nodes' = removeNode(nodes, id)
     /\ activeNodeId' = Null
     /\ last' = Cmd("deleteResolved", id, <<>>, Null, FALSE)
  /\ isLoading' = FALSE
  /\ inflight' = RemoveAt(inflight, i)
  /\ UNCHANGED nextId

deleteResolved(i) ==
  /\ inflight[i].op = "delete"
  /\ LET id == inflight[i].id IN
     /\ nodes' = removeNode(nodes, id)
     /\ activeNodeId' = IF activeNodeId = id THEN Null ELSE activeNodeId
     /\ last' = Cmd("deleteResolved", id, <<>>, Null, FALSE)
  /\ isLoading' = FALSE
  /\ inflight' = RemoveAt(inflight, i)
  /\ UNCHANGED nextId

\* a catch block that also drops the selection
rejectedStateClearsSelection(state) ==
  [state EXCEPT !.isLoading = FALSE, !.activeNodeId = Null]

\* a catch block that forgets the flag
rejectedStateKeepsLoading(state) == state

\* the catch blocks: update((state) => ({ ...state, isLoading: false }))
rejectedState(state) == [state EXCEPT !.isLoading = FALSE]

storeState == [nodes |-> nodes, activeNodeId |-> activeNodeId, isLoading |-> isLoading]

setStore(state) ==
  /\ nodes' = state.nodes
  /\ activeNodeId' = state.activeNodeId
  /\ isLoading' = state.isLoading

deleteRejected(i) ==
  /\ inflight[i].op = "delete"
  /\ setStore(rejectedState(storeState))
  /\ inflight' = RemoveAt(inflight, i)
  /\ last' = Cmd("deleteRejected", inflight[i].id, <<>>, Null, FALSE)
  /\ UNCHANGED nextId

addFileStart(name, parentId) ==
  /\ canStartAdd
  /\ isLoading' = TRUE
  /\ inflight' = Append(inflight, Request("addFile", Null, name, parentId))
  /\ last' = Cmd("addFileStart", Null, name, parentId, FALSE)
  /\ UNCHANGED <<nodes, activeNodeId, nextId>>

addFileResolved(i) ==
  /\ inflight[i].op = "addFile"
  /\ LET newNode == FileItem(generateId, inflight[i].name) IN
     /\ nodes' = insertNode(nodes, inflight[i].parentId, newNode)
     /\ last' = Cmd("addFileResolved", newNode.id, newNode.name, inflight[i].parentId, FALSE)
  /\ isLoading' = FALSE
  /\ nextId' = nextId + 1
  /\ inflight' = RemoveAt(inflight, i)
  /\ UNCHANGED activeNodeId

\* the same continuation with the value of generateId left open: nothing
\* compares the string Math.random() yields with the ids of the tree
addFileResolvedWith(i, id) ==
  /\ inflight[i].op = "addFile"
  /\ LET newNode == FileItem(id, inflight[i].name) IN
     /\ nodes' = insertNode(nodes, inflight[i].parentId, newNode)
     /\ last' = Cmd("addFileResolved", newNode.id, newNode.name, inflight[i].parentId, FALSE)
  /\ isLoading' = FALSE
  /\ nextId' = nextId + 1
  /\ inflight' = RemoveAt(inflight, i)
  /\ UNCHANGED activeNodeId

addFileRejected(i) ==
  /\ inflight[i].op = "addFile"
  /\ setStore(rejectedState(storeState))
  /\ inflight' = RemoveAt(inflight, i)
  /\ last' = Cmd("addFileRejected", Null, inflight[i].name, inflight[i].parentId, FALSE)
  /\ UNCHANGED nextId

addFolderStart(name, parentId) ==
  /\ canStartAdd
  /\ isLoading' = TRUE
  /\ inflight' = Append(inflight, Request("addFolder", Null, name, parentId))
  /\ last' = Cmd("addFolderStart", Null, name, parentId, FALSE)
  /\ UNCHANGED <<nodes, activeNodeId, nextId>>

addFolderResolved(i) ==
  /\ inflight[i].op = "addFolder"
  /\ LET newNode == FolderItem(generateId, inflight[i].name, <<>>, TRUE) IN
     /\ nodes' = insertNode(nodes, inflight[i].parentId, newNode)
     /\ last' = Cmd("addFolderResolved", newNode.id, newNode.name, inflight[i].parentId, TRUE)
  /\ isLoading' = FALSE
  /\ nextId' = nextId + 1
  /\ inflight' = RemoveAt(inflight, i)
  /\ UNCHANGED activeNodeId

addFolderRejected(i) ==
  /\ inflight[i].op = "addFolder"
  /\ setStore(rejectedState(storeState))
  /\ inflight' = RemoveAt(inflight, i)
  /\ last' = Cmd("addFolderRejected", Null, inflight[i].name, inflight[i].parentId, FALSE)
  /\ UNCHANGED nextId

(***************************************************************************)
(* The specifications.                                                     *)
(***************************************************************************)
Resolved ==
  \E i \in DOMAIN inflight :
    deleteResolved(i) \/ addFileResolved(i) \/ addFolderResolved(i)

Rejected ==
  \E i \in DOMAIN inflight :
    deleteRejected(i) \/ addFileRejected(i) \/ addFolderRejected(i)

\* the ids a caller may pass: those of the nodes on display and a stale one
ArgIds == idsOf(nodes) \cup {AbsentId}
ArgIdsOrNull == ArgIds \cup {Null}
\* a command with a persistence leg is started on a node on display; its id
\* goes stale when another command removes the node before the fetch returns
ShownIds == idsOf(nodes)
ShownIdsOrNull == ShownIds \cup {Null}

Next ==
  \/ \E id \in ArgIdsOrNull : setActive(id) /\ UNCHANGED uiVars
  \/ \E id \in ArgIds : toggleExpand(id) /\ UNCHANGED uiVars
  \/ \E id \in ArgIds, expanded \in BOOLEAN : setExpanded(id, expanded) /\ UNCHANGED uiVars
  \/ \E id \in ArgIds, newName \in Names : rename(id, newName) /\ UNCHANGED uiVars
  \/ \E id \in ArgIds, target \in ArgIdsOrNull : moveNode(id, target) /\ UNCHANGED uiVars
  \/ \E id \in ArgIds : deleteStart(id) /\ UNCHANGED uiVars
  \/ \E name \in Names, parentId \in ArgIdsOrNull : addFileStart(name, parentId) /\ UNCHANGED uiVars
  \/ \E name \in Names, parentId \in ArgIdsOrNull : addFolderStart(name, parentId) /\ UNCHANGED uiVars
  \/ Resolved /\ UNCHANGED uiVars
  \/ Rejected /\ UNCHANGED uiVars

\* the whole store; the specifications below run parts of it, each small
\* enough to be explored exhaustively
Spec == Init /\ [][Next]_vars

\* moveNode alone, from the initial trees
InitMove ==
  /\ nodes \in MoveSeeds
  /\ activeNodeId = Null
  /\ isLoading = FALSE
  /\ inflight = <<>>
  /\ nextId = FirstNewId
  /\ last = NoCmd
  /\ importer = NoImport
  /\ hover = NoHover

NextMove == \E id \in ArgIds, target \in ArgIdsOrNull : moveNode(id, target) /\ UNCHANGED uiVars

\* the commands with a persistence leg, and the selection
NextPersist ==
  \/ \E id \in ShownIds : deleteStart(id) /\ UNCHANGED uiVars
  \/ \E name \in Names, parentId \in ShownIdsOrNull : addFileStart(name, parentId) /\ UNCHANGED uiVars
  \/ \E name \in Names, parentId \in ShownIdsOrNull : addFolderStart(name, parentId) /\ UNCHANGED uiVars
  \/ Resolved /\ UNCHANGED uiVars
  \/ Rejected /\ UNCHANGED uiVars

NextAsync ==
  \/ \E id \in ShownIdsOrNull : setActive(id) /\ UNCHANGED uiVars
  \/ NextPersist

SpecAsync == Init /\ [][NextAsync]_vars

SpecMove == InitMove /\ [][NextMove]_vars

\* rename, committed by a tree item or called on the store
NextRename ==
  \/ \E id \in ShownIds, editName \in EditNames : handleRename(id, editName) /\ UNCHANGED uiVars
  \/ \E id \in ArgIds, newName \in Names : rename(id, newName) /\ UNCHANGED uiVars

SpecRename == InitMove /\ [][NextRename]_vars

\* the Name Resolver asked about the initial trees
InitNames ==
  /\ nodes \in NameTrees
  /\ activeNodeId = Null
  /\ isLoading = FALSE
  /\ inflight = <<>>
  /\ nextId = FirstNewId
  /\ last = NoCmd
  /\ importer = NoImport
  /\ hover = NoHover

NextNames ==
  \/ \E parentId \in ArgIdsOrNull, baseName \in ResolverNames :
       getUniqueFolderName(parentId, baseName) /\ UNCHANGED uiVars
  \/ \E parentId \in ArgIdsOrNull, fileName \in ResolverNames :
       getUniqueFileName(parentId, fileName) /\ UNCHANGED uiVars

SpecNames == InitNames /\ [][NextNames]_vars

\* addFile with an id generator that may repeat itself
GeneratedIds == 1 .. LastNewId

NextIds ==
  \/ \E name \in Names, parentId \in ShownIdsOrNull : addFileStart(name, parentId) /\ UNCHANGED uiVars
  \/ \E i \in DOMAIN inflight, id \in GeneratedIds : addFileResolvedWith(i, id) /\ UNCHANGED uiVars
  \/ \E i \in DOMAIN inflight : addFileRejected(i) /\ UNCHANGED uiVars

SpecIds == InitMove /\ [][NextIds]_vars

\* the commands without a persistence leg, called with the ids on display
\* and with a stale one
NextSync ==
  \/ \E id \in ShownIdsOrNull : setActive(id) /\ UNCHANGED uiVars
  \/ \E id \in ArgIds : toggleExpand(id) /\ UNCHANGED uiVars
  \/ \E id \in ArgIds, expanded \in BOOLEAN : setExpanded(id, expanded) /\ UNCHANGED uiVars
  \/ \E id \in ArgIds, newName \in Names : rename(id, newName) /\ UNCHANGED uiVars

SpecSync == InitMove /\ [][NextSync]_vars

\* What the array handed to removeNode holds once removeNode has returned:
\* filter builds a new array, but a folder that is kept is assigned its
\* filtered children in place (node.children = ...), and the old array still
\* holds that folder object; the node that is filtered out is not touched.
removeNodeArgumentAfter(ns, id) ==
  [i \in DOMAIN ns |->
     IF ns[i].id = id THEN ns[i]
     ELSE IF isFolder(ns[i])
          THEN [ns[i] EXCEPT !.children = removeNode(ns[i].children, id)]
          ELSE ns[i]]

\* what state.nodes holds once the update callback of moveNode has returned
moveNodeArgumentAfter(ns, nodeId, targetParentId) ==
  LET nodeCopy == findNode(ns, nodeId) IN
  IF nodeCopy = NoNode THEN ns
  ELSE IF targetParentId # Null /\ walkReaches(ns, findNode(ns, targetParentId), nodeId)
       THEN ns
  ELSE IF findParent(ns, nodeId, NoNode).id = targetParentId THEN ns
  ELSE removeNodeArgumentAfter(ns, nodeId)

(***************************************************************************)
(* The import of a drop (FileTree.handleDrop and processEntry).  A drop    *)
(* hands over a sequence of entries, each a file or a directory with its   *)
(* own entries.  processEntry is an async function: the importer runs up   *)
(* to an await, and goes on when the awaited promise has settled.  todo is *)
(* what the pending for-loops still have to process, innermost loop first. *)
(***************************************************************************)
FileEntry(key, name) ==
  [key |-> key, name |-> name, isDirectory |-> FALSE, entries |-> <<>>]

DirectoryEntry(key, name, entries) ==
  [key |-> key, name |-> name, isDirectory |-> TRUE, entries |-> entries]

\* what a drag from the desktop may carry
DropTree ==
  << DirectoryEntry(1, <<"a">>,
       << FileEntry(2, <<"a">>),
          DirectoryEntry(3, <<"b">>, << FileEntry(4, <<"A">>) >>) >>) >>

DropMixed ==
  << FileEntry(1, <<"a">>),
     DirectoryEntry(2, <<"A">>, << FileEntry(3, <<"b">>) >>) >>

Drops == { DropTree, DropMixed }

ImportSeeds == { <<>>, << FolderItem(1, <<"a">>, <<>>, FALSE) >> }

getActiveFolder(ns, active) ==
  IF active = Null THEN Null
  ELSE LET node == findNode(ns, active) IN
       IF node = NoNode THEN Null
       ELSE IF isFolder(node) THEN node.id
       ELSE findParent(ns, active, NoNode).id

\* FileTree.getParentId
getParentId == getActiveFolder(nodes, activeNodeId)

\* the first child of the parent (or the first root) that bears the name
findNodeByNameInParent(ns, parentId, name) ==
  LET children == getChildrenOfParent(ns, parentId)
      found == { i \in DOMAIN children : children[i].name = name }
  IN IF found = {} THEN NoNode
     ELSE children[CHOOSE i \in found : \A j \in found : i <= j]

\* an await that does not wait for the call to come back
settledAtOnce(request) ==
  TRUE

\* await treeStore.addFile(...) / addFolder(...): the promise of the call is
\* settled once its fetch has resolved or rejected and the continuation ran
settled(request) ==
  \A i \in DOMAIN inflight : inflight[i] # request

\* for (const childEntry of entries): the entries with the folder they go to
\* and the create call of the directory that holds them
queued(entries, parentId, containerCall) ==
  [i \in DOMAIN entries |->
     [entry |-> entries[i], parentId |-> parentId, containerCall |-> containerCall]]

\* processEntry from the unique name to the await on the create call
processEntryStart(item, todo) ==
  LET entry == item.entry
      parentId == item.parentId
      name == IF entry.isDirectory
              THEN getUniqueFolderNameResult(nodes, parentId, entry.name)
              ELSE getUniqueFileNameResult(nodes, parentId, entry.name)
  IN /\ IF entry.isDirectory THEN addFolderStart(name, parentId)
        ELSE addFileStart(name, parentId)
     /\ importer' = [pc |-> "awaiting", entry |-> entry,
                     awaited |-> Request(IF entry.isDirectory THEN "addFolder"
                                         ELSE "addFile", Null, name, parentId),
                     containerCall |-> item.containerCall, todo |-> todo]

\* the importer stops at an await that is not a create call (fileEntry.file,
\* reader.readEntries), or has run out of entries
importerYields(todo) ==
  /\ importer' = [NoImport EXCEPT !.pc = IF todo = <<>> THEN "idle" ELSE "ready",
                                  !.todo = todo]
  /\ UNCHANGED <<nodes, activeNodeId, isLoading, inflight, nextId>>

\* FileTree.handleDrop: a directory that comes first is created in the same
\* task; a file is first read (await fileEntry.file)
handleDropEntries(items) ==
  /\ importer.pc = "idle"
  /\ LET todo == queued(items, getParentId, NoRequest) IN
     IF Head(todo).entry.isDirectory
     THEN processEntryStart(Head(todo), Tail(todo))
     ELSE /\ importerYields(todo)
          /\ last' = Cmd("handleDrop", Null, <<>>, getParentId, FALSE)
  /\ UNCHANGED hover

\* fileEntry.file or reader.readEntries has called back: the next entry
processEntryNext ==
  /\ importer.pc = "ready"
  /\ processEntryStart(Head(importer.todo), Tail(importer.todo))
  /\ UNCHANGED hover

\* the awaited create call has come back.  After a directory: look the new
\* folder up by its name and read the entries (await); after a file: the
\* loop goes on, and a directory that comes next is created in the same task
processEntryResumed ==
  /\ importer.pc = "awaiting"
  /\ settled(importer.awaited)
  /\ LET entry == importer.entry
         call == importer.awaited
         newFolder == findNodeByNameInParent(nodes, call.parentId, call.name)
         newFolderId == newFolder.id
         todo == IF entry.isDirectory
                 THEN queued(entry.entries, newFolderId, call) \o importer.todo
                 ELSE importer.todo
     IN IF ~entry.isDirectory /\ todo # <<>> /\ Head(todo).entry.isDirectory
        THEN processEntryStart(Head(todo), Tail(todo))
        ELSE /\ importerYields(todo)
             /\ last' = Cmd("processEntry", newFolderId, call.name, call.parentId, FALSE)
  /\ UNCHANGED hover

InitImport ==
  /\ nodes \in ImportSeeds
  /\ activeNodeId \in idsOf(nodes) \cup {Null}
  /\ isLoading = FALSE
  /\ inflight = <<>>
  /\ nextId = Len(nodes) + 1
  /\ last = NoCmd
  /\ importer = NoImport
  /\ hover = NoHover

NextImport ==
  \/ \E items \in Drops : handleDropEntries(items)
  \/ processEntryNext
  \/ processEntryResumed
  \/ \E i \in DOMAIN inflight : addFileResolved(i) /\ UNCHANGED uiVars
  \/ \E i \in DOMAIN inflight : addFolderResolved(i) /\ UNCHANGED uiVars
  \/ \E i \in DOMAIN inflight : addFileRejected(i) /\ UNCHANGED uiVars
  \/ \E i \in DOMAIN inflight : addFolderRejected(i) /\ UNCHANGED uiVars

SpecImport == InitImport /\ [][NextImport]_vars

(***************************************************************************)
(* Drag-hover of the tree items (TreeItem.handleDragOver, handleDragLeave, *)
(* handleDrop and the callback of the dwell timer).  An item is mounted    *)
(* while every folder above it is expanded; the drag is taken to pass the  *)
(* same-folder and descendant tests of handleDragOver, which return        *)
(* without changing anything when they fail.                               *)
(***************************************************************************)
Timer(node, handle) == [node |-> node, handle |-> handle]

\* hoverExpandTimer of the item, 0 when it is null
timerOf(id) ==
  IF \E t \in hover.hoverExpandTimer : t.node = id
  THEN (CHOOSE t \in hover.hoverExpandTimer : t.node = id).handle
  ELSE 0

\* setTimeout returns a handle that nothing holds and nothing waits on
newHandle ==
  LET used == { t.handle : t \in hover.hoverExpandTimer \cup hover.timers }
      free == (1 .. (Cardinality(used) + 1)) \ used
  IN CHOOSE h \in free : \A g \in free : h <= g

\* {#if nodeExpanded} ... {#each nodeChildren}: the item of a node is mounted
\* when the folders above it are all expanded
RECURSIVE mounted(_, _)
mounted(ns, id) ==
  LET parent == findParent(ns, id, NoNode) IN
  parent = NoNode \/ (parent.expanded /\ mounted(ns, parent.id))

MountedIds == { id \in idsOf(nodes) : mounted(nodes, id) }

\* onDestroy: the items that are no longer mounted clear their timers, and
\* their state goes with them
unmount(h, ns) ==
  LET kept == { id \in idsOf(ns) : mounted(ns, id) } IN
  [isDragOver |-> h.isDragOver \cap kept,
   hoverExpandTimer |-> { t \in h.hoverExpandTimer : t.node \in kept },
   timers |-> { t \in h.timers :
                  t.node \in kept \/ t \notin h.hoverExpandTimer }]

handleClick(id) ==
  /\ ~isLoading
  /\ activeNodeId' = id
  /\ nodes' = toggleExpandResult(nodes, id)
  /\ hover' = unmount(hover, nodes')
  /\ last' = Cmd("handleClick", id, <<>>, Null, FALSE)
  /\ UNCHANGED <<isLoading, inflight, nextId, importer>>

handleDragOver(id) ==
  LET node == findNode(nodes, id)
      starts == id \notin hover.isDragOver /\ isFolder(node) /\ ~node.expanded
                /\ timerOf(id) = 0
  IN /\ ~isLoading
     /\ starts => Cardinality(hover.timers) < MaxTimers
     /\ hover' = IF id \in hover.isDragOver THEN hover
                 ELSE [isDragOver |-> hover.isDragOver \cup {id},
                       hoverExpandTimer |->
                         IF starts
                         THEN hover.hoverExpandTimer \cup {Timer(id, newHandle)}
                         ELSE hover.hoverExpandTimer,
                       timers |->
                         IF starts THEN hover.timers \cup {Timer(id, newHandle)}
                         ELSE hover.timers]
     /\ last' = Reply("handleDragOver", id, <<>>, Null,
                      IF starts THEN newHandle ELSE 0)
     /\ UNCHANGED <<nodes, activeNodeId, isLoading, inflight, nextId, importer>>

\* isDragOver = false; clearTimeout(hoverExpandTimer); hoverExpandTimer = null
dragOverEnded(id) ==
  [isDragOver |-> hover.isDragOver \ {id},
   hoverExpandTimer |-> { t \in hover.hoverExpandTimer : t.node # id },
   timers |-> { t \in hover.timers : t.handle # timerOf(id) }]

\* a handleDragLeave that forgets the handle without clearing the timeout
handleDragLeaveKeepsTimer(id) ==
  /\ hover' = [hover EXCEPT !.isDragOver = @ \ {id},
                            !.hoverExpandTimer = { t \in @ : t.node # id }]
  /\ last' = Reply("handleDragLeave", id, <<>>, Null, timerOf(id))
  /\ UNCHANGED <<nodes, activeNodeId, isLoading, inflight, nextId, importer>>

handleDragLeave(id) ==
  /\ hover' = dragOverEnded(id)
  /\ last' = Reply("handleDragLeave", id, <<>>, Null, timerOf(id))
  /\ UNCHANGED <<nodes, activeNodeId, isLoading, inflight, nextId, importer>>

\* a file dragged in from the desktop is dropped on a folder item; on a file
\* item the target is its containing folder and the item holds no timer
handleDropFile(id, fileName) ==
  LET node == findNode(nodes, id)
      targetFolderId == node.id
      uniqueName == getUniqueFileNameResult(nodes, targetFolderId, fileName)
  IN /\ isFolder(node)
     /\ hover' = dragOverEnded(id)
     /\ last' = Reply("handleDrop", id, uniqueName, targetFolderId, timerOf(id))
     /\ IF isLoading
        THEN UNCHANGED <<nodes, activeNodeId, isLoading, inflight, nextId>>
        ELSE /\ canStartAdd
             /\ nodes' = IF ~node.expanded THEN setNodeExpanded(nodes, id, TRUE)
                         ELSE nodes
             /\ isLoading' = TRUE
             /\ inflight' = Append(inflight,
                                   Request("addFile", Null, uniqueName, targetFolderId))
             /\ UNCHANGED <<activeNodeId, nextId>>
     /\ UNCHANGED importer

\* the callback of the dwell timer
hoverExpandTimerFires(t) ==
  /\ nodes' = setNodeExpanded(nodes, t.node, TRUE)
  /\ hover' = [hover EXCEPT !.hoverExpandTimer = { u \in @ : u.node # t.node },
                            !.timers = @ \ {t}]
  /\ last' = Reply("hoverExpandTimer", t.node, <<>>, Null, t.handle)
  /\ UNCHANGED <<activeNodeId, isLoading, inflight, nextId, importer>>

\* the file that is dragged in from the desktop
DroppedNames == { <<"a">> }

NextHover ==
  \/ \E id \in MountedIds : handleClick(id)
  \/ \E id \in MountedIds : handleDragOver(id)
  \/ \E id \in MountedIds : handleDragLeave(id)
  \/ \E id \in MountedIds, fileName \in DroppedNames : handleDropFile(id, fileName)
  \/ \E t \in hover.timers : hoverExpandTimerFires(t)
  \/ \E i \in DOMAIN inflight : addFileResolved(i) /\ UNCHANGED uiVars
  \/ \E i \in DOMAIN inflight : addFileRejected(i) /\ UNCHANGED uiVars

SpecHover == InitMove /\ [][NextHover]_vars

(***************************************************************************)
(* The explorer container (FileTree): the add-folder button and a drop of  *)
(* plain files on the container.                                           *)
(***************************************************************************)
\* the default baseName of getUniqueFolderName, written with one character
NewFolderName == <<"n">>

\* the button is disabled={$isLoading}; the call is not awaited
handleAddFolder ==
  /\ ~isLoading
  /\ LET parentId == getParentId
         folderName == getUniqueFolderNameResult(nodes, parentId, NewFolderName)
     IN addFolderStart(folderName, parentId)

\* FileTree.handleDrop with one file and no entry (the fallback loop over
\* files): the unique name and the start of addFile are one task; the
\* handler does not look at isLoading
handleDropFiles(fileName) ==
  LET parentId == getParentId
      uniqueName == getUniqueFileNameResult(nodes, parentId, fileName)
  IN addFileStart(uniqueName, parentId)

NextContainer ==
  \/ \E id \in MountedIds : handleClick(id)
  \/ handleAddFolder /\ UNCHANGED uiVars
  \/ \E fileName \in Names : handleDropFiles(fileName) /\ UNCHANGED uiVars
  \/ \E i \in DOMAIN inflight : addFileResolved(i) /\ UNCHANGED uiVars
  \/ \E i \in DOMAIN inflight : addFolderResolved(i) /\ UNCHANGED uiVars
  \/ \E i \in DOMAIN inflight : addFileRejected(i) /\ UNCHANGED uiVars
  \/ \E i \in DOMAIN inflight : addFolderRejected(i) /\ UNCHANGED uiVars

\* the explorer after some use: all ids but the last two have been handed out
InitContainer ==
  /\ nodes \in Seeds
  /\ activeNodeId = Null
  /\ isLoading = FALSE
  /\ inflight = <<>>
  /\ nextId = LastNewId - 1
  /\ last = NoCmd
  /\ importer = NoImport
  /\ hover = NoHover

SpecContainer == InitContainer /\ [][NextContainer]_vars

\* the sibling lookups, asked of every tree that moves make of the initial ones
NextSiblings ==
  \/ \E id \in ArgIds, target \in ArgIdsOrNull : moveNode(id, target) /\ UNCHANGED uiVars
  \/ \E id \in ArgIds : askSiblings(id) /\ UNCHANGED uiVars
  \/ \E id \in ArgIds, newName \in Names : askDuplicate(id, newName) /\ UNCHANGED uiVars

SpecSiblings == InitMove /\ [][NextSiblings]_vars

\* delete and the selection, from the initial trees
NextDelete ==
  \/ \E id \in ShownIdsOrNull : setActive(id) /\ UNCHANGED uiVars
  \/ \E id \in ShownIds : deleteStart(id) /\ UNCHANGED uiVars
  \/ \E i \in DOMAIN inflight : deleteResolved(i) /\ UNCHANGED uiVars
  \/ \E i \in DOMAIN inflight : deleteRejected(i) /\ UNCHANGED uiVars

SpecDelete == InitMove /\ [][NextDelete]_vars

\* addFile and addFolder, from the initial trees
NextAdd ==
  \/ \E name \in Names, parentId \in ShownIdsOrNull : addFileStart(name, parentId) /\ UNCHANGED uiVars
  \/ \E name \in Names, parentId \in ShownIdsOrNull : addFolderStart(name, parentId) /\ UNCHANGED uiVars
  \/ \E i \in DOMAIN inflight : addFileResolved(i) /\ UNCHANGED uiVars
  \/ \E i \in DOMAIN inflight : addFolderResolved(i) /\ UNCHANGED uiVars
  \/ \E i \in DOMAIN inflight : addFileRejected(i) /\ UNCHANGED uiVars
  \/ \E i \in DOMAIN inflight : addFolderRejected(i) /\ UNCHANGED uiVars

SpecAdd == InitMove /\ [][NextAdd]_vars

(***************************************************************************)
(* Vocabulary of the properties, defined on the tree itself and not by     *)
(* the store's own lookup functions.                                       *)
(***************************************************************************)
\* how many nodes of the forest have this id
RECURSIVE occurrences(_, _)
occurrences(ns, id) ==
  IF ns = <<>> THEN 0
  ELSE (IF Head(ns).id = id THEN 1 ELSE 0)
       + occurrences(getChildren(Head(ns)), id) + occurrences(Tail(ns), id)

\* the ids of the parents of the nodes with this id (Null for a root)
RECURSIVE parentsOf(_, _, _)
parentsOf(ns, id, parentId) ==
  IF ns = <<>> THEN {}
  ELSE (IF Head(ns).id = id THEN {parentId} ELSE {})
       \cup parentsOf(getChildren(Head(ns)), id, Head(ns).id)
       \cup parentsOf(Tail(ns), id, parentId)

\* the nodes with this id, each with its whole subtree
RECURSIVE nodesWithId(_, _)
nodesWithId(ns, id) ==
  IF ns = <<>> THEN {}
  ELSE (IF Head(ns).id = id THEN {Head(ns)} ELSE {})
       \cup nodesWithId(getChildren(Head(ns)), id)
       \cup nodesWithId(Tail(ns), id)

theNode(ns, id) == CHOOSE n \in nodesWithId(ns, id) : TRUE

present(ns, id) == occurrences(ns, id) > 0

\* the sibling scope of a parent: the roots, or the children of that folder
scopeOf(ns, parentId) ==
  IF parentId = Null THEN ns
  ELSE IF present(ns, parentId) THEN getChildren(theNode(ns, parentId))
  ELSE <<>>

isFolderOrRoot(ns, parentId) ==
  parentId = Null \/ (present(ns, parentId) /\ isFolder(theNode(ns, parentId)))

\* target is nodeId itself or lies in the subtree of nodeId
isSelfOrDescendant(ns, target, nodeId) ==
  present(ns, nodeId) /\ target \in idsOf(<<theNode(ns, nodeId)>>)

sameName(a, b) == toLowerCase(a) = toLowerCase(b)

RECURSIVE NameUnique(_)
NameUnique(ns) ==
  /\ \A i, j \in DOMAIN ns : i # j => ~sameName(ns[i].name, ns[j].name)
  /\ \A i \in DOMAIN ns : NameUnique(getChildren(ns[i]))

RECURSIVE NoSelfDescendant(_)
NoSelfDescendant(ns) ==
  \A i \in DOMAIN ns :
    /\ ns[i].id \notin idsOf(getChildren(ns[i]))
    /\ NoSelfDescendant(getChildren(ns[i]))

\* the ids of a sequence of nodes, in order
idSeq(ns) == [i \in DOMAIN ns |-> ns[i].id]

\* a sequence of ids without one id
without(ids, id) == SelectSeq(ids, LAMBDA x : x # id)

\* a node without its subtree: its own fields and the ids of its children
shallow(node) ==
  [id |-> node.id, name |-> node.name, type |-> node.type,
   expanded |-> IF isFolder(node) THEN node.expanded ELSE FALSE,
   childIds |-> idSeq(getChildren(node))]

storeUnchanged == UNCHANGED <<nodes, activeNodeId, isLoading>>

RejectedOps == {"deleteRejected", "addFileRejected", "addFolderRejected"}

(***************************************************************************)
(* C1  Uniqueness invariant: in every reachable state no two siblings      *)
(* (children of one folder, or two roots) bear names that are equal        *)
(* case-insensitively.  The store inserts whatever name addFile/addFolder  *)
(* is given, so the statement is refuted.                                  *)
(***************************************************************************)
C1_UniquenessInvariant == NameUnique(nodes)

(***************************************************************************)
(* C2  Commit-after-confirm: the step taken when the persistence call of   *)
(* delete, addFile or addFolder failed changes neither nodes nor           *)
(* activeNodeId and leaves isLoading false.                                *)
(***************************************************************************)
C2_CommitAfterConfirm ==
  [][last'.op \in RejectedOps =>
       /\ nodes' = nodes
       /\ activeNodeId' = activeNodeId
       /\ isLoading' = FALSE]_vars

\* a delete of the selected node failed: the node and the selection are kept
C2_Witness ==
  /\ last.op = "deleteRejected"
  /\ present(nodes, last.id)
  /\ activeNodeId = last.id
  /\ ~isLoading

(***************************************************************************)
(* C3  Acyclicity: after any sequence of moveNode calls on a well-formed   *)
(* tree every id occurs at one position at most and no node lies in its    *)
(* own subtree.                                                            *)
(***************************************************************************)
C3_Acyclicity ==
  /\ \A id \in idsOf(nodes) : occurrences(nodes, id) = 1
  /\ NoSelfDescendant(nodes)

\* the folder seeded under folder 1 has been moved to the root level
C3_Witness ==
  /\ last.op = "moveNode"
  /\ last.parentId = Null
  /\ nodes # <<>>
  /\ nodes[Len(nodes)].id = last.id
  /\ isFolder(nodes[Len(nodes)])
  /\ last.id # 1

(***************************************************************************)
(* C4  Cycle rejection: a moveNode whose target is the node itself or one  *)
(* of its descendants, at any depth, leaves the whole state unchanged.     *)
(***************************************************************************)
C4_CycleRejection ==
  [][(last'.op = "moveNode" /\ isSelfOrDescendant(nodes, last'.parentId, last'.id))
       => storeUnchanged]_vars

\* a folder was asked to move into a grandchild of its own
C4_Witness ==
  /\ last.op = "moveNode"
  /\ present(nodes, last.id)
  /\ \E i \in DOMAIN getChildren(theNode(nodes, last.id)) :
       last.parentId \in idsOf(getChildren(theNode(nodes, last.id).children[i]))

(***************************************************************************)
(* C5  No-op rejection: a moveNode whose target already is the parent of   *)
(* the node (Null for a root) leaves the state unchanged: same order of    *)
(* children, same expanded flags.                                          *)
(***************************************************************************)
C5_NoOpRejection ==
  [][(last'.op = "moveNode" /\ parentsOf(nodes, last'.id, Null) = {last'.parentId})
       => storeUnchanged]_vars

\* the node was not the last of its siblings and its folder was collapsed:
\* re-inserting it would have shown
C5_Witness ==
  /\ last.op = "moveNode"
  /\ last.parentId # Null
  /\ parentsOf(nodes, last.id, Null) = {last.parentId}
  /\ LET scope == scopeOf(nodes, last.parentId) IN scope[Len(scope)].id # last.id
  /\ ~theNode(nodes, last.parentId).expanded

(***************************************************************************)
(* C6  Move conflict guard: a moveNode into a scope where another node     *)
(* already bears the moved node's name (case-insensitively) does not       *)
(* relocate the node and leaves the tree unchanged.  moveNode has no such  *)
(* guard, so the statement is refuted.                                     *)
(***************************************************************************)
moveConflict(ns, nodeId, targetParentId) ==
  /\ present(ns, nodeId)
  /\ LET scope == scopeOf(ns, targetParentId) IN
     \E i \in DOMAIN scope :
       /\ scope[i].id # nodeId
       /\ sameName(scope[i].name, theNode(ns, nodeId).name)

C6_MoveConflictGuard ==
  [][(last'.op = "moveNode" /\ moveConflict(nodes, last'.id, last'.parentId))
       => nodes' = nodes]_vars

(***************************************************************************)
(* C7  Successful relocation: a moveNode that is not declined (the node    *)
(* exists, the target is neither the node nor a descendant of it nor its   *)
(* current parent) and whose target is an existing folder or the root      *)
(* puts the node, unchanged with its whole subtree, last in the target     *)
(* scope, at that one position only, and leaves the parent of every other  *)
(* node as it was.                                                         *)
(***************************************************************************)
moveApplies(ns, nodeId, targetParentId) ==
  /\ present(ns, nodeId)
  /\ ~isSelfOrDescendant(ns, targetParentId, nodeId)
  /\ parentsOf(ns, nodeId, Null) # {targetParentId}
  /\ isFolderOrRoot(ns, targetParentId)

C7_SuccessfulRelocation ==
  [][(last'.op = "moveNode" /\ moveApplies(nodes, last'.id, last'.parentId)) =>
       LET id == last'.id
           scope == scopeOf(nodes', last'.parentId)
       IN /\ scope # <<>>
          /\ scope[Len(scope)] = theNode(nodes, id)
          /\ occurrences(nodes', id) = 1
          /\ idsOf(nodes') = idsOf(nodes)
          /\ \A other \in idsOf(nodes) \ {id} :
               parentsOf(nodes', other, Null) = parentsOf(nodes, other, Null)]_vars

\* a folder with a child was moved into a folder that already had a child
C7_Witness ==
  /\ last.op = "moveNode"
  /\ last.parentId # Null
  /\ LET scope == scopeOf(nodes, last.parentId) IN
     /\ Len(scope) >= 2
     /\ scope[Len(scope)].id = last.id
     /\ getChildren(scope[Len(scope)]) # <<>>

(***************************************************************************)
(* C8  The pending flag covers every in-flight command: whenever a fetch   *)
(* of delete, addFile or addFolder is outstanding, isLoading is true.      *)
(* Refuted when two commands overlap: the first to complete clears it.     *)
(***************************************************************************)
C8_PendingCoversInFlight == inflight # <<>> => isLoading

(***************************************************************************)
(* C9  Command serialization: while a command with a persistence leg is    *)
(* in flight, the only change applied to the tree is the completion of     *)
(* the command that was started first.  Refuted: nothing queues commands.  *)
(***************************************************************************)
C9_CommandSerialization ==
  [][(inflight # <<>> /\ nodes' # nodes) => inflight' = Tail(inflight)]_vars

(***************************************************************************)
(* C10  The pending flag is always released: if every fetch eventually     *)
(* resolves or rejects, a state with isLoading true is always followed by  *)
(* a state with isLoading false.                                           *)
(***************************************************************************)
C10_PendingReleased == isLoading ~> ~isLoading

\* the flag was released by a catch block
C10_Witness == last.op = "addFolderRejected" /\ ~isLoading /\ inflight = <<>>

(***************************************************************************)
(* C11  No optimistic application: the step that issues the fetch of       *)
(* delete, addFile or addFolder leaves the tree as it is, the id the add   *)
(* is going to mint is not in the tree while its fetch is outstanding,     *)
(* and the tree changes only in the step that follows a resolved fetch.    *)
(***************************************************************************)
StartOps == {"deleteStart", "addFileStart", "addFolderStart"}

ResolvedOps == {"deleteResolved", "addFileResolved", "addFolderResolved"}

C11_NoOptimisticApplication ==
  [][/\ last'.op \in StartOps => nodes' = nodes
     /\ nodes' # nodes =>
          /\ last'.op \in ResolvedOps
          /\ \E i \in DOMAIN inflight : inflight' = RemoveAt(inflight, i)
     /\ \A id \in idsOf(nodes') : id < nextId']_vars

\* an addFile was issued while a delete is outstanding: the node to delete
\* is still there and the id to be minted is not
C11_Witness ==
  /\ last.op = "addFileStart"
  /\ Len(inflight) = 2
  /\ inflight[1].op = "delete"
  /\ present(nodes, inflight[1].id)
  /\ ~present(nodes, generateId)

(***************************************************************************)
(* C12  A successful delete(id) removes the node id and its descendants    *)
(* and nothing else: every remaining node keeps its own fields, its        *)
(* parent and its place among its remaining siblings.  When id is not in   *)
(* the tree, the tree is unchanged.                                        *)
(***************************************************************************)
C12_DeleteRemovesSubtree ==
  [][last'.op = "deleteResolved" =>
       LET id == last'.id
           gone == IF present(nodes, id) THEN idsOf(<<theNode(nodes, id)>>) ELSE {}
       IN /\ idsOf(nodes') = idsOf(nodes) \ gone
          /\ idSeq(nodes') = without(idSeq(nodes), id)
          /\ \A other \in idsOf(nodes') :
               /\ occurrences(nodes', other) = 1
               /\ shallow(theNode(nodes', other))
                    = [shallow(theNode(nodes, other)) EXCEPT !.childIds = without(@, id)]
          /\ ~present(nodes, id) => nodes' = nodes]_vars

\* the folder nested in folder 1 was deleted: its sibling and the roots stay
C12_Witness ==
  /\ last.op = "deleteResolved"
  /\ last.id = 2
  /\ nodes = << FolderItem(1, <<"a">>, << FileItem(3, <<"A">>) >>, FALSE),
                FileItem(4, <<"b">>) >>

\* a delete resolved for a node that an earlier delete had removed already
C12_WitnessAbsent ==
  /\ last.op = "deleteResolved"
  /\ nodes = << FileItem(4, <<"b">>) >>
  /\ last.id = 3

(***************************************************************************)
(* C13  After a successful delete(id) activeNodeId is null if it was id    *)
(* before, and is what it was otherwise; a failed delete leaves            *)
(* activeNodeId as it was.                                                 *)
(***************************************************************************)
C13_DeleteSelection ==
  [][/\ last'.op = "deleteResolved" =>
          activeNodeId' = IF activeNodeId = last'.id THEN Null ELSE activeNodeId
     /\ last'.op = "deleteRejected" => activeNodeId' = activeNodeId]_vars

\* folder 1 was deleted while its child was selected: the selection is kept
C13_Witness ==
  /\ last.op = "deleteResolved"
  /\ last.id = 1
  /\ activeNodeId = 3
  /\ ~present(nodes, 1)

(***************************************************************************)
(* C14  Insertion appends and reveals: a successful addFile/addFolder      *)
(* whose parentId names an existing folder puts the new node last among    *)
(* the children of that folder and sets that folder's expanded flag; with  *)
(* no parentId the new node becomes the last root.  Every other node       *)
(* keeps its fields (expanded included), its parent and its place.         *)
(***************************************************************************)
AddResolvedOps == {"addFileResolved", "addFolderResolved"}

C14_InsertAppendsAndReveals ==
  [][(last'.op \in AddResolvedOps /\ isFolderOrRoot(nodes, last'.parentId)) =>
       LET id == last'.id
           parentId == last'.parentId
       IN /\ ~present(nodes, id)
          /\ occurrences(nodes', id) = 1
          /\ idsOf(nodes') = idsOf(nodes) \cup {id}
          /\ theNode(nodes', id).name = last'.name
          /\ getChildren(theNode(nodes', id)) = <<>>
          /\ isFolder(theNode(nodes', id)) <=> last'.op = "addFolderResolved"
          /\ idSeq(nodes') = IF parentId = Null THEN Append(idSeq(nodes), id)
                             ELSE idSeq(nodes)
          /\ \A other \in idsOf(nodes) :
               shallow(theNode(nodes', other))
                 = IF other = parentId
                   THEN [shallow(theNode(nodes, other)) EXCEPT
                           !.expanded = TRUE, !.childIds = Append(@, id)]
                   ELSE shallow(theNode(nodes, other))]_vars

\* a file was added to the expanded folder nested in the collapsed folder 1:
\* it comes last in folder 2, and folder 1 is still collapsed
C14_Witness ==
  /\ last.op = "addFileResolved"
  /\ last.parentId = 2
  /\ present(nodes, 1)
  /\ ~theNode(nodes, 1).expanded
  /\ idSeq(getChildren(theNode(nodes, 2))) = <<last.id>>

\* a folder was added to the collapsed folder 1, after its two children
C14_WitnessReveal ==
  /\ last.op = "addFolderResolved"
  /\ last.parentId = 1
  /\ theNode(nodes, 1).expanded
  /\ idSeq(getChildren(theNode(nodes, 1))) = <<2, 3, last.id>>

(***************************************************************************)
(* C15  A folder created by a successful addFolder has no children and     *)
(* has expanded = false.  Refuted: addFolder creates the folder with       *)
(* expanded: true.                                                         *)
(***************************************************************************)
C15_NewFolderCollapsed ==
  [][(last'.op = "addFolderResolved" /\ present(nodes', last'.id)) =>
       /\ getChildren(theNode(nodes', last'.id)) = <<>>
       /\ ~theNode(nodes', last'.id).expanded]_vars

(***************************************************************************)
(* C16  Collision-free result: the name returned by getUniqueFileName and  *)
(* by getUniqueFolderName is not equal, case-insensitively, to the name    *)
(* of any child of the parent asked about (any root, for no parent).       *)
(***************************************************************************)
ResolverOps == {"getUniqueFileName", "getUniqueFolderName"}

bornBy(scope, name) == \E i \in DOMAIN scope : sameName(scope[i].name, name)

C16_CollisionFree ==
  last.op \in ResolverOps => ~bornBy(scopeOf(nodes, last.parentId), last.result)

\* "a" and "a(1)" are taken at the root, in another case: the folder is "a(2)"
C16_Witness ==
  /\ last.op = "getUniqueFolderName"
  /\ last.parentId = Null
  /\ last.name = <<"A">>
  /\ last.result = <<"A">> \o Numbered(2)

(***************************************************************************)
(* C17  Idempotent uniqueness: both resolvers return the requested name    *)
(* itself when no child of the parent bears it case-insensitively, and     *)
(* return their own output when asked again about it with the same         *)
(* siblings.                                                               *)
(***************************************************************************)
C17_IdempotentUniqueness ==
  /\ (last.op \in ResolverOps /\ ~bornBy(scopeOf(nodes, last.parentId), last.name))
       => last.result = last.name
  /\ last.op = "getUniqueFileName" =>
       getUniqueFileNameResult(nodes, last.parentId, last.result) = last.result
  /\ last.op = "getUniqueFolderName" =>
       getUniqueFolderNameResult(nodes, last.parentId, last.result) = last.result

\* "a(1).txt" was asked for next to "a.txt": it is free and comes back as is
C17_Witness ==
  /\ last.op = "getUniqueFileName"
  /\ last.name = <<"a">> \o Numbered(1) \o DotTxt
  /\ last.result = last.name
  /\ bornBy(scopeOf(nodes, last.parentId), <<"a">> \o DotTxt)

(***************************************************************************)
(* C18  Extension-aware suffixing: when the requested file name is taken,  *)
(* getUniqueFileName returns base + "(k)" + ext, where the name is split   *)
(* at its last "." unless that is its first character (then base is the    *)
(* whole name and ext is empty), and k is the least integer >= 1 whose     *)
(* name is not taken.  "a.txt" next to "a.txt" gives "a(1).txt", "a" next  *)
(* to "a" gives "a(1)".                                                    *)
(***************************************************************************)
lastDotOf(name) ==
  LET dots == {i \in DOMAIN name : name[i] = "."} IN
  IF dots = {} THEN 0 ELSE CHOOSE i \in dots : \A j \in dots : j <= i

baseOf(name) ==
  IF lastDotOf(name) > 1 THEN SubSeq(name, 1, lastDotOf(name) - 1) ELSE name

extOf(name) ==
  IF lastDotOf(name) > 1 THEN SubSeq(name, lastDotOf(name), Len(name)) ELSE <<>>

suffixed(name, k) == baseOf(name) \o Numbered(k) \o extOf(name)

C18_ExtensionAwareSuffix ==
  /\ LET scope == scopeOf(nodes, last.parentId) IN
     (last.op = "getUniqueFileName" /\ bornBy(scope, last.name)) =>
       \E k \in 1 .. Len(scope) + 1 :
         /\ last.result = suffixed(last.name, k)
         /\ ~bornBy(scope, suffixed(last.name, k))
         /\ \A j \in 1 .. k - 1 : bornBy(scope, suffixed(last.name, j))
  /\ getUniqueFileNameResult(<<FileItem(1, <<"a">> \o DotTxt)>>, Null, <<"a">> \o DotTxt)
       = <<"a", "(", "1", ")", ".", "t", "x", "t">>
  /\ getUniqueFileNameResult(<<FileItem(1, <<"a">>)>>, Null, <<"a">>)
       = <<"a", "(", "1", ")">>

\* "A.txt" next to "a.txt" and "a(1).txt": the number goes before ".txt"
C18_Witness ==
  /\ last.op = "getUniqueFileName"
  /\ last.name = <<"A">> \o DotTxt
  /\ last.result = <<"A", "(", "2", ")", ".", "t", "x", "t">>

\* ".a" next to ".a": the leading dot starts no extension
C18_WitnessLeadingDot ==
  /\ last.op = "getUniqueFileName"
  /\ last.name = <<".", "a">>
  /\ last.result = <<".", "a", "(", "1", ")">>

(***************************************************************************)
(* C19  A rename whose candidate name fails validation (nothing left       *)
(* after trimming, more than 255 characters, or a "/" or a "\" in it)      *)
(* leaves the store unchanged and leaves a message for the user.           *)
(***************************************************************************)
\* the name without the spaces around it
core(name) ==
  IF \A i \in DOMAIN name : name[i] = " " THEN <<>>
  ELSE SubSeq(name,
         CHOOSE i \in DOMAIN name :
           name[i] # " " /\ \A j \in 1 .. i - 1 : name[j] = " ",
         CHOOSE i \in DOMAIN name :
           name[i] # " " /\ \A j \in i + 1 .. Len(name) : name[j] = " ")

malformed(name) ==
  \/ core(name) = <<>>
  \/ Len(core(name)) > maxLength
  \/ \E i \in DOMAIN name : name[i] \in {"/", "\\"}

C19_WitnessSeparator ==
  /\ last.op = "handleRename"
  /\ last.name = <<"a", "/", "b">>
  /\ last.result = MsgSlash

(***************************************************************************)
(* C20  rename(id, newName) applies the new name only when no sibling of   *)
(* id (same parent, or the other roots) bears newName case-insensitively;  *)
(* when one does, the tree is left unchanged.  Refuted: treeStore.rename   *)
(* applies any name; only TreeItem.handleRename asks checkDuplicate first. *)
(***************************************************************************)
RenameOps == {"rename", "handleRename"}

\* the other nodes of the scope the node id lies in
siblingsOf(ns, id) ==
  LET parentId == CHOOSE p \in parentsOf(ns, id, Null) : TRUE IN
  SelectSeq(scopeOf(ns, parentId), LAMBDA n : n.id # id)

renameConflict(ns, id, newName) ==
  present(ns, id) /\ bornBy(siblingsOf(ns, id), core(newName))

C20_RenameConflictGuard ==
  [][(last'.op \in RenameOps /\ renameConflict(nodes, last'.id, last'.name))
       => nodes' = nodes]_vars

(***************************************************************************)
(* C21  Id uniqueness: in every reachable state no two nodes of the tree   *)
(* have the same id; the id minted for a new node differs from the id of   *)
(* every node already in the tree.  Refuted: the id is a random string     *)
(* that nothing compares with the ids in use.                              *)
(***************************************************************************)
C21_IdUniqueness ==
  [][/\ \A id \in idsOf(nodes') : occurrences(nodes', id) = 1
     /\ last'.op \in AddResolvedOps => ~present(nodes, last'.id)]_vars

(***************************************************************************)
(* C22  No-op on absent target: rename, setExpanded, toggleExpand,         *)
(* moveNode and an acknowledged delete whose id names no node of the tree  *)
(* leave nodes and activeNodeId as they were.                               *)
(* Refuted for delete: the selection is compared with the id whether or    *)
(* not the id names a node, so a selection left dangling on that id is     *)
(* cleared.                                                                 *)
(***************************************************************************)
AbsentTargetOps ==
  {"rename", "setExpanded", "toggleExpand", "moveNode", "deleteResolved"}

C22_NoOpOnAbsentTarget ==
  [][(last'.op \in AbsentTargetOps /\ ~present(nodes, last'.id))
       => (nodes' = nodes /\ activeNodeId' = activeNodeId)]_vars

(***************************************************************************)
(* C23  Snapshot immutability: the tree published before a delete or a     *)
(* moveNode is the same value after the command as before it; the command  *)
(* builds its result from fresh nodes.                                      *)
(* Refuted: removeNode assigns the filtered children to the folder objects *)
(* of the tree it was given, so the node deleted or moved from inside a    *)
(* folder is gone from the earlier snapshot as well.                        *)
(***************************************************************************)
C23_SnapshotImmutability ==
  [][/\ last'.op = "deleteResolved" =>
          removeNodeArgumentAfter(nodes, last'.id) = nodes
     /\ last'.op = "moveNode" =>
          moveNodeArgumentAfter(nodes, last'.id, last'.parentId) = nodes]_vars

(***************************************************************************)
(* C26  moveNode does not depend on expansion state: on two trees that     *)
(* differ only in the expanded flags of their folders the same             *)
(* moveNode(nodeId, targetParentId) is declined in both or applied in      *)
(* both, and the two results have the same structure (ids, names, types    *)
(* and children order).                                                     *)
(***************************************************************************)
\* a tree without its expanded flags
RECURSIVE structure(_)
structure(ns) ==
  [i \in DOMAIN ns |->
     IF isFolder(ns[i])
     THEN [id |-> ns[i].id, name |-> ns[i].name, type |-> ns[i].type,
           children |-> structure(ns[i].children)]
     ELSE ns[i]]

\* the trees that differ from this one in expanded flags only
RECURSIVE expandedVariants(_)
expandedVariants(ns) ==
  IF ns = <<>> THEN { <<>> }
  ELSE LET heads == IF isFolder(Head(ns))
                    THEN { [Head(ns) EXCEPT !.children = c, !.expanded = e] :
                             c \in expandedVariants(Head(ns).children),
                             e \in BOOLEAN }
                    ELSE { Head(ns) }
       IN { <<h>> \o t : h \in heads, t \in expandedVariants(Tail(ns)) }

C26_MoveIgnoresExpansion ==
  [][last'.op = "moveNode" =>
       \A other \in expandedVariants(nodes) :
          LET result == moveNodeResult(other, last'.id, last'.parentId) IN
          /\ (result = other) <=> (nodes' = nodes)
          /\ structure(result) = structure(nodes')]_vars

\* file 3 was moved out of the collapsed folder 1 to the root
C26_Witness ==
  /\ last.op = "moveNode"
  /\ last.id = 3
  /\ last.parentId = Null
  /\ idSeq(nodes) = <<1, 4, 3>>

\* file 4 was moved into folder 1, collapsed in one tree and expanded in the other
C26_WitnessInto ==
  /\ last.op = "moveNode"
  /\ last.id = 4
  /\ last.parentId = 1
  /\ idSeq(nodes) = <<1>>
  /\ \E other \in expandedVariants(SeedDocs) : ~ other[1].expanded

(***************************************************************************)
(* C29  Rename frame: rename(id, newName) changes the name of the node     *)
(* with that id and nothing else: every node keeps its id, type, children  *)
(* and expanded flag, every other node keeps its name, the order of every  *)
(* sibling list, activeNodeId and isLoading stay as they were.              *)
(***************************************************************************)
C29_RenameFrame ==
  [][last'.op = "rename" =>
       /\ idSeq(nodes') = idSeq(nodes)
       /\ idsOf(nodes') = idsOf(nodes)
       /\ \A j \in idsOf(nodes) :
            /\ occurrences(nodes', j) = 1
            /\ shallow(theNode(nodes', j)) =
                 IF j = last'.id
                 THEN [shallow(theNode(nodes, j)) EXCEPT !.name = last'.name]
                 ELSE shallow(theNode(nodes, j))
       /\ UNCHANGED <<activeNodeId, isLoading>>]_vars

\* the expanded folder 2, inside folder 1, was renamed from b to A
C29_Witness ==
  /\ last.op = "rename"
  /\ last.id = 2
  /\ last.name = <<"A">>
  /\ present(nodes, 2)
  /\ shallow(theNode(nodes, 2)) =
       [id |-> 2, name |-> <<"A">>, type |-> "folder", expanded |-> TRUE,
        childIds |-> <<>>]
  /\ shallow(theNode(nodes, 1)).childIds = <<2, 3>>

(***************************************************************************)
(* C30  Expansion frame: setExpanded(id, b) and toggleExpand(id) change    *)
(* nothing when id names a file (or no node); when id names a folder they  *)
(* change the expanded flag of that folder and nothing else; a second      *)
(* toggleExpand(id) right after the first restores the tree.                *)
(***************************************************************************)
ExpandOps == {"setExpanded", "toggleExpand"}

C30_ExpansionFrame ==
  [][last'.op \in ExpandOps =>
       LET id == last'.id
           folder == present(nodes, id) /\ isFolder(theNode(nodes, id))
           flag == IF last'.op = "setExpanded" THEN last'.expanded
                   ELSE ~theNode(nodes, id).expanded
       IN /\ ~folder => nodes' = nodes
          /\ idSeq(nodes') = idSeq(nodes)
          /\ idsOf(nodes') = idsOf(nodes)
          /\ \A j \in idsOf(nodes) :
               /\ occurrences(nodes', j) = 1
               /\ shallow(theNode(nodes', j)) =
                    IF j = id /\ folder
                    THEN [shallow(theNode(nodes, j)) EXCEPT !.expanded = flag]
                    ELSE shallow(theNode(nodes, j))
          /\ last'.op = "toggleExpand" => toggleExpandResult(nodes', id) = nodes
          /\ UNCHANGED <<activeNodeId, isLoading>>]_vars

\* folder 2, inside the collapsed folder 1, was collapsed by toggleExpand
C30_Witness ==
  /\ last.op = "toggleExpand"
  /\ last.id = 2
  /\ present(nodes, 2)
  /\ isFolder(theNode(nodes, 2))
  /\ ~theNode(nodes, 2).expanded
  /\ ~theNode(nodes, 1).expanded

\* setExpanded was called on the file 3
C30_WitnessFile ==
  /\ last.op = "setExpanded"
  /\ last.id = 3
  /\ last.expanded
  /\ present(nodes, 3)
  /\ ~isFolder(theNode(nodes, 3))

(***************************************************************************)
(* C24  Batch import ordering: while a dropped directory tree is imported  *)
(* at most one create call of the batch is in flight, and the create call  *)
(* for an entry inside a directory is issued only when the create call for *)
(* that directory has come back.                                            *)
(***************************************************************************)
AddStartOps == {"addFileStart", "addFolderStart"}

inFlight(request) == \E i \in DOMAIN inflight : inflight[i] = request

C24_BatchImportOrdering ==
  [][/\ Len(inflight') <= 1
     /\ last'.op \in AddStartOps =>
          /\ inflight = <<>>
          /\ ~inFlight(importer'.containerCall)]_vars

\* the file inside the inner directory is being created under the folder
\* made for that directory, itself inside the folder made for the outer one
C24_Witness ==
  /\ last.op = "addFileStart"
  /\ importer.entry.key = 4
  /\ importer.containerCall.op = "addFolder"
  /\ importer.containerCall.name = <<"b">>
  /\ importer.containerCall.parentId # Null
  /\ last.parentId # Null
  /\ findParent(nodes, last.parentId, NoNode).id = importer.containerCall.parentId

(***************************************************************************)
(* C25  Dwell cancellation: a drag-leave or a drop on a collapsed folder   *)
(* before its dwell timer has fired cancels the timer, so the hover that   *)
(* was left or dropped never expands the folder: the timer callback runs   *)
(* only for an item that is still hovered.  No item ever has two dwell     *)
(* timers pending.                                                          *)
(***************************************************************************)
HoverEndOps == {"handleDragLeave", "handleDrop"}

pendingFor(h, id) == { t \in h.timers : t.node = id }

C25_DwellCancellation ==
  [][/\ \A id \in idsOf(nodes') : Cardinality(pendingFor(hover', id)) <= 1
     /\ last'.op \in HoverEndOps => pendingFor(hover', last'.id) = {}
     /\ last'.op = "hoverExpandTimer" => last'.id \in hover.isDragOver]_vars

\* the collapsed folder 1 was left while its dwell timer was pending
C25_Witness ==
  /\ last.op = "handleDragLeave"
  /\ last.id = 1
  /\ last.result # 0
  /\ ~theNode(nodes, 1).expanded
  /\ hover.timers = {}

\* a file was dropped on folder 1 while its dwell timer was pending: the
\* timer is cleared, and the drop itself opens the folder it adds to
C25_WitnessDrop ==
  /\ last.op = "handleDrop"
  /\ last.id = 1
  /\ last.result # 0
  /\ isLoading
  /\ pendingFor(hover, 1) = {}

(***************************************************************************)
(* C27  Callers respect the pending flag: no handler of the user           *)
(* interface (click on a node, add-folder button, drop on the explorer     *)
(* container, ...) starts a store command that changes the tree or the     *)
(* selection while isLoading is true.                                       *)
(* Refuted: the drop handler of the container does not look at isLoading.  *)
(***************************************************************************)
HandlerCommandOps == {"handleClick", "addFileStart", "addFolderStart"}

C27_CallersRespectPending ==
  [][last'.op \in HandlerCommandOps => ~isLoading]_vars

(***************************************************************************)
(* C28  Names inserted by the UI are unique at insertion time: a node      *)
(* added through a drop, the picker or the import has, when it is inserted, *)
(* a name that differs case-insensitively from every sibling already in    *)
(* its parent, also when the name was computed before the create call was  *)
(* awaited and other commands completed in between.                         *)
(* Refuted: the name is computed when the call starts and is not looked at *)
(* again when the node is inserted.                                         *)
(***************************************************************************)
C28_UniqueAtInsertion ==
  [][last'.op \in AddResolvedOps =>
       LET siblings == scopeOf(nodes, last'.parentId) IN
       \A i \in DOMAIN siblings : ~sameName(siblings[i].name, last'.name)]_vars

(***************************************************************************)
(* C31  Children order is insertion order: in every step and every scope   *)
(* (the roots, or the children of one folder) the nodes that were in the   *)
(* scope before and are in it afterwards keep their relative order, and a  *)
(* node that comes into the scope stands after all that were there.         *)
(***************************************************************************)
rangeOf(seq) == { seq[i] : i \in DOMAIN seq }

restrictedTo(seq, S) == SelectSeq(seq, LAMBDA x : x \in S)

orderKept(before, after) ==
  /\ restrictedTo(before, rangeOf(after)) = restrictedTo(after, rangeOf(before))
  /\ \A i, j \in DOMAIN after :
       (after[i] \notin rangeOf(before) /\ after[j] \in rangeOf(before)) => j < i

C31_InsertionOrder ==
  [][\A parentId \in idsOf(nodes) \cup idsOf(nodes') \cup {Null} :
       orderKept(idSeq(scopeOf(nodes, parentId)),
                 idSeq(scopeOf(nodes', parentId)))]_vars

\* file 4 was taken from between the roots 1 and 3 and put behind the child
\* of folder 1
C31_Witness ==
  /\ last.op = "moveNode"
  /\ last.id = 4
  /\ last.parentId = 1
  /\ idSeq(nodes) = <<1, 3>>
  /\ idSeq(getChildren(theNode(nodes, 1))) = <<2, 4>>

\* the first of three roots was moved away: the other two keep their order
C31_WitnessGap ==
  /\ last.op = "moveNode"
  /\ last.id = 1
  /\ last.parentId = 2
  /\ idSeq(nodes) = <<4, 2>>

(***************************************************************************)
(* C32  Sibling lookup: getSiblings(id) returns the nodes that share the   *)
(* parent of id (the other roots when id is a root), in order and without  *)
(* id itself, and the empty sequence when id is an only child or is not in *)
(* the tree; checkDuplicate(id, name) is true exactly when one of those    *)
(* siblings bears name, letter case aside.                                  *)
(***************************************************************************)
C32_SiblingLookup ==
  /\ last.op = "getSiblings" =>
       last.result = IF present(nodes, last.id) THEN siblingsOf(nodes, last.id)
                     ELSE <<>>
  /\ last.op = "checkDuplicate" =>
       last.result = (/\ present(nodes, last.id)
                      /\ \E n \in rangeOf(siblingsOf(nodes, last.id)) :
                           sameName(n.name, last.name))

\* the siblings of file 3, two levels down, next to file 4
C32_Witness ==
  /\ last.op = "getSiblings"
  /\ last.id = 3
  /\ parentsOf(nodes, 3, Null) = {2}
  /\ parentsOf(nodes, 2, Null) = {1}
  /\ idSeq(last.result) = <<4>>

\* an only child two levels down
C32_WitnessOnlyChild ==
  /\ last.op = "getSiblings"
  /\ last.id = 3
  /\ parentsOf(nodes, 3, Null) = {2}
  /\ parentsOf(nodes, 2, Null) = {1}
  /\ last.result = <<>>

\* A is taken by file 3 next to folder 2, asked about as a
C32_WitnessDuplicate ==
  /\ last.op = "checkDuplicate"
  /\ last.id = 2
  /\ last.name = <<"a">>
  /\ last.result = TRUE
  /\ parentsOf(nodes, 2, Null) = {1}

(***************************************************************************)
(* C33  The resolvers terminate within the number of siblings: for a       *)
(* parent with n children getUniqueFileName and getUniqueFolderName test   *)
(* at most n + 1 candidate names, and a returned name that carries a       *)
(* suffix "(k)" has 1 <= k <= n.                                           *)
(***************************************************************************)
C33_ResolverBound ==
  last.op \in ResolverOps =>
    LET n == Len(scopeOf(nodes, last.parentId))
        tests == IF last.op = "getUniqueFileName"
                 THEN getUniqueFileNameTests(nodes, last.parentId, last.name)
                 ELSE getUniqueFolderNameTests(nodes, last.parentId, last.name)
    IN /\ tests <= n + 1
       /\ last.result # last.name =>
            \E k \in 1 .. n :
              /\ tests = k + 1
              /\ last.result = IF last.op = "getUniqueFileName"
                               THEN suffixed(last.name, k)
                               ELSE last.name \o Numbered(k)

\* folder 1 holds "a" and "a(1)": a third folder "a" becomes "a(2)", k = n = 2
C33_Witness ==
  /\ last.op = "getUniqueFolderName"
  /\ last.parentId = 1
  /\ last.name = <<"a">>
  /\ Len(scopeOf(nodes, 1)) = 2
  /\ last.result = <<"a">> \o Numbered(2)
  /\ getUniqueFolderNameTests(nodes, 1, <<"a">>) = 3

\* the same with an extension: "a.txt" next to "A.txt" and "a(1).txt"
C33_WitnessFile ==
  /\ last.op = "getUniqueFileName"
  /\ last.parentId = 1
  /\ last.name = <<"a">> \o DotTxt
  /\ last.result = <<"a">> \o Numbered(2) \o DotTxt
  /\ getUniqueFileNameTests(nodes, 1, last.name) = 3

(***************************************************************************)
(* C34  moveNode never loses or duplicates a node: whatever nodeId and     *)
(* targetParentId are, a targetParentId absent from the tree or the id of  *)
(* a file included, the tree holds the same ids after moveNode as before,  *)
(* each of them once.                                                      *)
(***************************************************************************)
C34_MoveKeepsNodes ==
  [][last'.op = "moveNode" =>
       /\ idsOf(nodes') = idsOf(nodes)
       /\ \A id \in idsOf(nodes') : occurrences(nodes', id) = 1]_vars

\* the same for the moves whose target is the root or a folder of the tree
C34_MoveIntoFolderKeepsNodes ==
  [][(last'.op = "moveNode" /\ isFolderOrRoot(nodes, last'.parentId)) =>
       /\ idsOf(nodes') = idsOf(nodes)
       /\ \A id \in idsOf(nodes') : occurrences(nodes', id) = 1]_vars

\* the moves whose target is a file or absent and that are not declined
\* beforehand: each of them drops the moved subtree
C34_MoveElsewhereLosesNodes ==
  [][(/\ last'.op = "moveNode"
      /\ present(nodes, last'.id)
      /\ ~isFolderOrRoot(nodes, last'.parentId)
      /\ ~isSelfOrDescendant(nodes, last'.parentId, last'.id)) =>
       idsOf(nodes') = idsOf(nodes) \ idsOf(<<theNode(nodes, last'.id)>>)]_vars

(***************************************************************************)
(* C35  An acknowledged create is reflected locally: the step taken when   *)
(* the persistence call of addFile or addFolder succeeded leaves the tree  *)
(* with exactly one new node, which bears the name given and is a child of *)
(* parentId (a root when no parentId was given), also when a delete of the *)
(* parent completed while the create was in flight.                        *)
(***************************************************************************)
newIn(scope, before) == { i \in DOMAIN scope : scope[i].id \notin idsOf(before) }

C35_AcknowledgedCreateLands ==
  [][last'.op \in AddResolvedOps =>
       LET scope == scopeOf(nodes', last'.parentId) IN
       /\ Cardinality(idsOf(nodes') \ idsOf(nodes)) = 1
       /\ Cardinality(newIn(scope, nodes)) = 1
       /\ \A i \in newIn(scope, nodes) : scope[i].name = last'.name]_vars

\* the same for the creates whose parent is the root or a folder of the tree
\* at the time the call is acknowledged
C35_CreateLandsUnderStandingFolder ==
  [][(last'.op \in AddResolvedOps /\ isFolderOrRoot(nodes, last'.parentId)) =>
       LET scope == scopeOf(nodes', last'.parentId) IN
       /\ Cardinality(idsOf(nodes') \ idsOf(nodes)) = 1
       /\ Cardinality(newIn(scope, nodes)) = 1
       /\ \A i \in newIn(scope, nodes) : scope[i].name = last'.name]_vars

\* a create was acknowledged after its parent had been deleted: the tree
\* holds neither the parent nor the node
C35_LostToDelete ==
  /\ last.op \in AddResolvedOps
  /\ last.parentId # Null
  /\ ~present(nodes, last.parentId)
  /\ ~present(nodes, last.id)

(***************************************************************************)
(* C36  Imported children stay under their directory: a node created for   *)
(* an entry that lies inside a dropped directory is a child of the folder  *)
(* created for that directory.  When the creation of that folder failed or *)
(* the folder is not found afterwards, the entry is inserted nowhere else, *)
(* in particular not at the root.                                          *)
(***************************************************************************)
\* the folder the call created: it bears the name of the call under the
\* parent of the call
createdBy(ns, id, call) ==
  /\ id # Null
  /\ present(ns, id)
  /\ isFolder(theNode(ns, id))
  /\ theNode(ns, id).name = call.name
  /\ parentsOf(ns, id, Null) = {call.parentId}

C36_ImportedChildrenStayInside ==
  [][(/\ last'.op \in AddResolvedOps
      /\ importer.pc = "awaiting"
      /\ importer.containerCall # NoRequest
      /\ present(nodes', last'.id)) =>
       \A parentId \in parentsOf(nodes', last'.id, Null) :
         createdBy(nodes', parentId, importer.containerCall)]_vars

\* the folder for the dropped directory was refused; the file that lies
\* inside the directory has been created as a root
C36_StrayAtRoot ==
  /\ last.op = "addFileResolved"
  /\ importer.pc = "awaiting"
  /\ importer.containerCall.op = "addFolder"
  /\ \A i \in DOMAIN nodes : ~isFolder(nodes[i]) \/ nodes[i].name # importer.containerCall.name
  /\ importer.containerCall.parentId = Null
  /\ \E i \in DOMAIN nodes : nodes[i].id = last.id

\* the same for the entries whose directory did get its folder
C36_InsideWhenFolderStands ==
  [][(/\ last'.op \in AddResolvedOps
      /\ importer.pc = "awaiting"
      /\ importer.containerCall # NoRequest
      /\ \E id \in idsOf(nodes) : createdBy(nodes, id, importer.containerCall)
      /\ present(nodes', last'.id)) =>
       \A parentId \in parentsOf(nodes', last'.id, Null) :
         createdBy(nodes', parentId, importer.containerCall)]_vars

(***************************************************************************)
(* C37  The selection never dangles after a delete: when activeNodeId is   *)
(* null or names a node of the tree before a delete is acknowledged, it is *)
(* null or names a node of the tree afterwards, also when the selected     *)
(* node was a descendant of the deleted one.                               *)
(***************************************************************************)
selectionStands(ns, active) == active = Null \/ present(ns, active)

C37_SelectionSurvivesDelete ==
  [][(last'.op = "deleteResolved" /\ selectionStands(nodes, activeNodeId)) =>
       selectionStands(nodes', activeNodeId')]_vars

\* the same for the deletes of a node that is not above the selected one
C37_SelectionStandsOutsideSubtree ==
  [][(/\ last'.op = "deleteResolved"
      /\ selectionStands(nodes, activeNodeId)
      /\ (activeNodeId = last'.id \/ ~isSelfOrDescendant(nodes, activeNodeId, last'.id))) =>
       selectionStands(nodes', activeNodeId')]_vars

\* the commands with a persistence leg alone; every outstanding fetch
\* eventually resolves or rejects
SpecPersistFair ==
  Init /\ [][NextPersist]_vars /\ WF_vars((Resolved \/ Rejected) /\ UNCHANGED uiVars)

====
